---- MODULE Spec2Model ----
(***************************************************************************)
(* torchsample/transforms/tensor_transforms.py                             *)
(*                                                                         *)
(* The transform units (callables taking a tensor x and an optional paired *)
(* tensor y) and the Compose pipeline that threads x, or (x, y), through a *)
(* list of units.                                                          *)
(*                                                                         *)
(* Numbers are exact rationals <<n, d>> (d > 0, lowest terms); d = 0 holds *)
(* the IEEE specials a float tensor division produces (<<0,0>> is nan,     *)
(* <<1,0>> is inf, <<-1,0>> is -inf).  A tensor is its class (numpy array, *)
(* torch tensor, autograd Variable), element type, device, shape, and a    *)
(* function from the 0-based index tuples of that shape to numbers.        *)
(* Scalars returned by th.min/th.max/th.mean/th.std are Python numbers (as *)
(* in the torch builds that still have torch.autograd.Variable), so a      *)
(* scalar division by zero raises ZeroDivisionError while a tensor         *)
(* division by zero yields nan or inf.                                     *)
(***************************************************************************)
EXTENDS Integers, Sequences, FiniteSets, TLC

VARIABLES
    pc,          \* position: "idle", "run", "slice2d", "returned", "raised"
    mode,        \* "unit" (a unit invoked directly) or "compose"
    transforms,  \* Compose.transforms: the list of units (with their state)
    x0, y0,      \* the arguments of the current invocation
    x, y,        \* the local variables x and y of the running __call__
    i,           \* index of the next unit of the Compose loop
    tape,        \* per unit call made, what the random source yielded last
    last,        \* record of the last completed unit call
    solo,        \* the same unit call on the same x with y absent, same draws
    result,      \* what the invocation returned
    error        \* what the invocation raised ("" if nothing)

vars == <<pc, mode, transforms, x0, y0, x, y, i, tape, last, solo, result, error>>

-----------------------------------------------------------------------------
(* Bounds of the model *)

\* largest extent of the leading (channel) axis of an input
MaxC == 4
\* largest extent of a spatial axis of an input
MaxHW == 3
\* longest Compose pipeline
MaxLen == 2
\* draws of one Slice2D call that are recorded: later draws of its loop take the
\* place of the last one recorded
MaxDraws == 2

-----------------------------------------------------------------------------
(* Numbers *)

Abs(n) == IF n < 0 THEN -n ELSE n

Sgn(n) == IF n < 0 THEN -1 ELSE IF n > 0 THEN 1 ELSE 0

RECURSIVE GCD(_, _)
GCD(a, b) == IF b = 0 THEN a ELSE GCD(b, a % b)

\* the rational n/d in lowest terms, d > 0; n/0 is nan, inf or -inf
Q(n, d) ==
    IF d = 0 THEN <<Sgn(n), 0>>
    ELSE LET g == GCD(Abs(n), Abs(d))
             s == IF d < 0 THEN -1 ELSE 1
         IN  <<(s * n) \div g, (s * d) \div g>>

QInt(n) == <<n, 1>>
NaN == <<0, 0>>
IsFinite(a) == a[2] # 0
IsNaN(a) == a = NaN

QNeg(a) == <<-a[1], a[2]>>

QAdd(a, b) ==
    IF IsFinite(a) /\ IsFinite(b) THEN Q(a[1] * b[2] + b[1] * a[2], a[2] * b[2])
    ELSE IF IsNaN(a) \/ IsNaN(b) THEN NaN
    ELSE IF IsFinite(a) THEN b
    ELSE IF IsFinite(b) THEN a
    ELSE IF a = b THEN a ELSE NaN

QSub(a, b) == QAdd(a, QNeg(b))

QMul(a, b) ==
    IF IsFinite(a) /\ IsFinite(b) THEN Q(a[1] * b[1], a[2] * b[2])
    ELSE <<Sgn(a[1]) * Sgn(b[1]), 0>>

\* IEEE division, as a float tensor divides: x/0 is nan or an infinity
QDiv(a, b) ==
    IF IsFinite(a) /\ IsFinite(b) THEN Q(a[1] * b[2], a[2] * b[1])
    ELSE IF IsNaN(a) \/ IsNaN(b) THEN NaN
    ELSE IF IsFinite(a) THEN QInt(0)
    ELSE IF IsFinite(b) THEN <<a[1] * (IF b[1] < 0 THEN -1 ELSE 1), 0>>
    ELSE NaN

\* a < b; every comparison with nan is false
QLess(a, b) ==
    IF IsNaN(a) \/ IsNaN(b) THEN FALSE
    ELSE IF IsFinite(a) /\ IsFinite(b) THEN a[1] * b[2] < b[1] * a[2]
    ELSE IF IsFinite(a) THEN b[1] > 0
    ELSE IF IsFinite(b) THEN a[1] < 0
    ELSE a[1] < b[1]

\* Python's ==
QEq(a, b) == ~IsNaN(a) /\ a = b

\* int(math.ceil(n / 2.)) and int(math.floor(n / 2.)) for an integer n
CeilHalf(n) == (n + 1) \div 2
FloorHalf(n) == n \div 2

\* resolution at which the square root of th.std is computed
SqrtRes == 100

\* floor(sqrt(n)) for n >= 0
ISqrt(n) == CHOOSE r \in 0..n : r * r <= n /\ (r + 1) * (r + 1) > n

QSqrt(a) ==
    IF ~IsFinite(a) THEN (IF a[1] > 0 THEN a ELSE NaN)
    ELSE IF a[1] < 0 THEN NaN
    ELSE Q(ISqrt((a[1] * SqrtRes * SqrtRes) \div a[2]), SqrtRes)

-----------------------------------------------------------------------------
(* Tensors *)

None == [tag |-> "None"]

IsNone(v) == v.tag = "None"
IsTensorValue(v) == v.tag = "tensor"

\* a Python tuple (a, b)
Pair(a, b) == [tag |-> "tuple", items |-> <<a, b>>]

\* F(v), with v computed once
Eval(v, F(_)) == CHOOSE z \in {F(w) : w \in {v}} : TRUE

RECURSIVE Indices(_)
Indices(shape) ==
    IF shape = <<>> THEN {<<>>}
    ELSE LET rest == Indices(Tail(shape))
         IN  {<<a>> \o r : a \in 0..(shape[1] - 1), r \in rest}

MkTensor(cls, dtype, device, shape, F(_)) ==
    [tag |-> "tensor", cls |-> cls, dtype |-> dtype, device |-> device,
     shape |-> shape, data |-> [idx \in Indices(shape) |-> F(idx)]]

\* a tensor like t (class, element type, device) with a new shape and content
Like(t, shape, F(_)) == MkTensor(t.cls, t.dtype, t.device, shape, F)

\* the tensor methods below exist on torch tensors and Variables
IsTorch(v) == IsTensorValue(v) /\ v.cls \in {"Tensor", "Variable"}
\* x.numpy() exists on a CPU torch tensor only
HasNumpy(v) == IsTensorValue(v) /\ v.cls = "Tensor" /\ v.device = "cpu"

Dim(t) == Len(t.shape)

\* x.size(k) accepts k in -dim..dim-1
ValidAxis(t, k) == -Dim(t) <= k /\ k < Dim(t)
Size(t, k) == IF k < 0 THEN t.shape[Dim(t) + k + 1] ELSE t.shape[k + 1]

Elements(t) == {t.data[idx] : idx \in DOMAIN t.data}
NumElements(t) == Cardinality(DOMAIN t.data)

\* Python's slice a:b on an axis of extent n: <<start, stop>>, start <= stop
SliceBounds(a, b, n) ==
    LET clip(k) == IF k < 0 THEN (IF k + n < 0 THEN 0 ELSE k + n)
                   ELSE (IF k > n THEN n ELSE k)
        start == clip(a)
        stop == clip(b)
    IN  <<start, IF stop < start THEN start ELSE stop>>

\* a slice that selects nothing is a ValueError ("result of slicing is an empty
\* tensor")
CropOk(t, a0, b0, a1, b1) ==
    /\ Dim(t) >= 3
    /\ SliceBounds(a0, b0, t.shape[2])[1] < SliceBounds(a0, b0, t.shape[2])[2]
    /\ SliceBounds(a1, b1, t.shape[3])[1] < SliceBounds(a1, b1, t.shape[3])[2]

\* x[:, a0:b0, a1:b1] (x has at least three axes)
Crop(t, a0, b0, a1, b1) ==
    LET r0 == SliceBounds(a0, b0, t.shape[2])
        r1 == SliceBounds(a1, b1, t.shape[3])
        shape == [t.shape EXCEPT ![2] = r0[2] - r0[1], ![3] = r1[2] - r1[1]]
    IN  Like(t, shape,
             LAMBDA idx : t.data[[idx EXCEPT ![2] = @ + r0[1], ![3] = @ + r1[1]]])

\* the sequence s without its k-th element / with e inserted before position k
Without(s, k) == SubSeq(s, 1, k - 1) \o SubSeq(s, k + 1, Len(s))
Inserted(s, k, e) == SubSeq(s, 1, k - 1) \o <<e>> \o SubSeq(s, k, Len(s))

\* x[k,:,:], x[:,k,:], x[:,:,k]: the axis (0-based) is dropped
Select(t, axis, k) ==
    Like(t, Without(t.shape, axis + 1),
         LAMBDA idx : t.data[Inserted(idx, axis + 1, k)])

\* x.permute(*plist): axis j of the result is axis plist[j] of x
Permute(t, plist) ==
    Like(t, [j \in 1..Dim(t) |-> t.shape[plist[j] + 1]],
         LAMBDA idx : t.data[[m \in 1..Dim(t) |->
                                idx[CHOOSE j \in 1..Dim(t) : plist[j] = m - 1]]])

\* th.transpose(x, d1, d2), x.swapaxes(d1, d2)
SwapAxes(t, d1, d2) ==
    Permute(t, [j \in 1..Dim(t) |-> IF j = d1 + 1 THEN d2
                                    ELSE IF j = d2 + 1 THEN d1 ELSE j - 1])

\* x[::-1, ...]: the leading axis reversed
Reverse0(t) ==
    Like(t, t.shape, LAMBDA idx : t.data[[idx EXCEPT ![1] = t.shape[1] - 1 - @]])

\* x.index_select(0, order): slice k of the result is slice order[k] of x
IndexSelect0(t, order) ==
    Like(t, [t.shape EXCEPT ![1] = Len(order)],
         LAMBDA idx : t.data[[idx EXCEPT ![1] = order[@ + 1]]])
IndexSelect0Ok(t, order) ==
    Dim(t) >= 1 /\ \A k \in 1..Len(order) : order[k] < t.shape[1]

\* x.unsqueeze(axis), 0 <= axis <= dim
Unsqueeze(t, axis) ==
    Like(t, Inserted(t.shape, axis + 1, 1), LAMBDA idx : t.data[Without(idx, axis + 1)])

\* np.pad(x, pad_sizes, mode='constant'): pad_sizes[k] = <<before, after>>
PadConstant(t, pad_sizes) ==
    LET shape == [k \in 1..Dim(t) |-> pad_sizes[k][1] + t.shape[k] + pad_sizes[k][2]]
        src(idx) == [k \in 1..Dim(t) |-> idx[k] - pad_sizes[k][1]]
    IN  Like(t, shape,
             LAMBDA idx : IF src(idx) \in DOMAIN t.data THEN t.data[src(idx)]
                          ELSE QInt(0))

\* elementwise
Map(t, F(_)) == Like(t, t.shape, LAMBDA idx : F(t.data[idx]))

RECURSIVE SumOver(_, _)
SumOver(f, S) ==
    IF S = {} THEN QInt(0)
    ELSE Eval(CHOOSE e \in S : TRUE, LAMBDA e :
              Eval(SumOver(f, S \ {e}), LAMBDA rest : QAdd(f[e], rest)))

\* th.sum, th.min, th.max, th.mean, th.std over all elements (non-empty t)
TSum(t) == Eval(t.data, LAMBDA f : SumOver(f, DOMAIN f))
TMin(t) ==
    IF NaN \in Elements(t) THEN NaN
    ELSE CHOOSE m \in Elements(t) : \A v \in Elements(t) : ~QLess(v, m)
TMax(t) ==
    IF NaN \in Elements(t) THEN NaN
    ELSE CHOOSE m \in Elements(t) : \A v \in Elements(t) : ~QLess(m, v)
TMean(t) == QDiv(TSum(t), QInt(NumElements(t)))
\* unbiased: sqrt(sum((v - mean)^2) / (n - 1)); nan for a single element
TStd(t) ==
    Eval(TMean(t), LAMBDA m :
        Eval([idx \in DOMAIN t.data |->
                 QMul(QSub(t.data[idx], m), QSub(t.data[idx], m))], LAMBDA sq :
            QSqrt(QDiv(SumOver(sq, DOMAIN t.data), QInt(NumElements(t) - 1)))))

-----------------------------------------------------------------------------
(* Outcome of one __call__ of a unit: it returns a value or raises; drawn   *)
(* is the sequence of values it took from the random source, unit the unit *)
(* with its state after the call.                                          *)

Return(t, v, drawn) ==
    [kind |-> "return", value |-> v, error |-> "", drawn |-> drawn, unit |-> t]
Raise(t, e, drawn) ==
    [kind |-> "raise", value |-> None, error |-> e, drawn |-> drawn, unit |-> t]

\* "return x, y" when y is given, "return x" otherwise
XY(t, xv, yv, drawn) == Return(t, Pair(xv, yv), drawn)
X(t, xv, drawn) == Return(t, xv, drawn)

\* what the random source yields during one call (one loop iteration for
\* Slice2D); a unit reads only the fields it draws
NoDraw ==
    [h_idx |-> 0, w_idx |-> 0, u_h |-> QInt(0), u_v |-> QInt(0),
     keep_slice |-> 0, order |-> <<>>]

-----------------------------------------------------------------------------
(* The units *)

ToTensor_call(t, xa, ya, r) ==
    IF ~(IsTensorValue(xa) /\ xa.cls = "ndarray") THEN Raise(t, "TypeError", <<>>)
    ELSE LET xn == [xa EXCEPT !.cls = "Tensor"]
         IN  IF ~IsNone(ya)
             THEN IF ~(IsTensorValue(ya) /\ ya.cls = "ndarray")
                  THEN Raise(t, "TypeError", <<>>)
                  ELSE XY(t, xn, [ya EXCEPT !.cls = "Tensor"], <<>>)
             ELSE X(t, xn, <<>>)

ToVariable_call(t, xa, ya, r) ==
    IF ~(IsTensorValue(xa) /\ xa.cls = "Tensor") THEN Raise(t, "TypeError", <<>>)
    ELSE LET xn == [xa EXCEPT !.cls = "Variable"]
         IN  IF ~IsNone(ya)
             THEN IF ~(IsTensorValue(ya) /\ ya.cls = "Tensor")
                  THEN Raise(t, "TypeError", <<>>)
                  ELSE XY(t, xn, [ya EXCEPT !.cls = "Variable"], <<>>)
             ELSE X(t, xn, <<>>)

\* __call__(self, x, y) has no default for y: a call without y is a TypeError
ToCuda_call(t, xa, ya, r) ==
    IF IsNone(ya) THEN Raise(t, "TypeError", <<>>)
    ELSE IF ~IsTorch(xa) THEN Raise(t, "AttributeError", <<>>)
    ELSE LET xn == [xa EXCEPT !.device = t.device]
         IN  IF ~IsTorch(ya) THEN Raise(t, "AttributeError", <<>>)
             ELSE XY(t, xn, [ya EXCEPT !.device = t.device], <<>>)

\* the files written are outside the model; the counter is the unit's state
ToFile_call(t, xa, ya, r) ==
    IF ~HasNumpy(xa) THEN Raise(t, "AttributeError", <<>>)
    ELSE IF ~IsNone(ya)
         THEN IF ~HasNumpy(ya) THEN Raise(t, "AttributeError", <<>>)
              ELSE XY([t EXCEPT !.counter = @ + 1], xa, ya, <<>>)
         ELSE X([t EXCEPT !.counter = @ + 1], xa, <<>>)

ChannelsLast_call(t, xa, ya, r) ==
    IF ~IsTorch(xa) THEN Raise(t, "AttributeError", <<>>)
    ELSE LET ndim == Dim(xa)
             plist == [j \in 1..ndim |-> IF j = ndim THEN 0 ELSE j]
         IN  IF t.safe_check /\ Size(xa, -1) < Size(xa, 0)
             THEN IF ~IsNone(ya) THEN XY(t, xa, ya, <<>>) ELSE X(t, xa, <<>>)
             ELSE IF ~IsNone(ya)
                  THEN IF ~IsTorch(ya) THEN Raise(t, "AttributeError", <<>>)
                       ELSE IF Dim(ya) # ndim THEN Raise(t, "RuntimeError", <<>>)
                       ELSE XY(t, Permute(xa, plist), Permute(ya, plist), <<>>)
                  ELSE X(t, Permute(xa, plist), <<>>)

ChannelsFirst_call(t, xa, ya, r) ==
    IF ~IsTorch(xa) THEN Raise(t, "AttributeError", <<>>)
    ELSE LET ndim == Dim(xa)
             plist == [j \in 1..ndim |-> IF j = 1 THEN ndim - 1 ELSE j - 2]
         IN  IF t.safe_check /\ Size(xa, 0) < Size(xa, -1)
             THEN IF ~IsNone(ya) THEN XY(t, xa, ya, <<>>) ELSE X(t, xa, <<>>)
             ELSE IF ~IsNone(ya)
                  THEN IF ~IsTorch(ya) THEN Raise(t, "AttributeError", <<>>)
                       ELSE IF Dim(ya) # ndim THEN Raise(t, "RuntimeError", <<>>)
                       ELSE XY(t, Permute(xa, plist), Permute(ya, plist), <<>>)
                  ELSE X(t, Permute(xa, plist), <<>>)

\* x.type(dtype); the element types of the model are the floating ones, and a
\* cast between them keeps the value
TypeCast_call(t, xa, ya, r) ==
    IF ~IsTorch(xa) THEN Raise(t, "AttributeError", <<>>)
    ELSE LET xn == [xa EXCEPT !.dtype = t.dtype]
         IN  IF ~IsNone(ya)
             THEN IF ~IsTorch(ya) THEN Raise(t, "AttributeError", <<>>)
                  ELSE XY(t, xn, [ya EXCEPT !.dtype = t.dtype], <<>>)
             ELSE X(t, xn, <<>>)

AddChannel_call(t, xa, ya, r) ==
    IF ~IsTorch(xa) THEN Raise(t, "AttributeError", <<>>)
    ELSE IF t.axis > Dim(xa) THEN Raise(t, "RuntimeError", <<>>)
    ELSE IF ~IsNone(ya)
         THEN IF ~IsTorch(ya) THEN Raise(t, "AttributeError", <<>>)
              ELSE IF t.axis > Dim(ya) THEN Raise(t, "RuntimeError", <<>>)
              ELSE XY(t, Unsqueeze(xa, t.axis), Unsqueeze(ya, t.axis), <<>>)
         ELSE X(t, Unsqueeze(xa, t.axis), <<>>)

Transpose_call(t, xa, ya, r) ==
    IF ~IsTorch(xa) THEN Raise(t, "TypeError", <<>>)
    ELSE IF ~(ValidAxis(xa, t.dim1) /\ ValidAxis(xa, t.dim2))
         THEN Raise(t, "RuntimeError", <<>>)
    ELSE IF ~IsNone(ya)
         THEN IF ~IsTorch(ya) THEN Raise(t, "TypeError", <<>>)
              ELSE IF ~(ValidAxis(ya, t.dim1) /\ ValidAxis(ya, t.dim2))
                   THEN Raise(t, "RuntimeError", <<>>)
              ELSE XY(t, SwapAxes(xa, t.dim1, t.dim2), SwapAxes(ya, t.dim1, t.dim2), <<>>)
         ELSE X(t, SwapAxes(xa, t.dim1, t.dim2), <<>>)

\* fixed_min=None, fixed_max=None
NoValue == <<>>

\* denominator of the 1e-07 added to min_val
EpsDenominator == 10000000
Epsilon == Q(1, EpsDenominator)

\* a = (max_range - min_range) / (max_val - min_val) on Python numbers:
\* <<TRUE, a>>, or <<FALSE, _>> when the division raises ZeroDivisionError
ScaleOf(t, min_val, max_val) ==
    LET den == QSub(max_val, min_val)
    IN  <<den # QInt(0), QDiv(QSub(t.max_range, t.min_range), den)>>

\* x.mul(a).add(b) with b = max_range - a * max_val
Affine(t, v, a, max_val) ==
    Eval(QSub(t.max_range, QMul(a, max_val)), LAMBDA b :
        Map(v, LAMBDA e : QAdd(QMul(e, a), b)))

RangeNormalize_call(t, xa, ya, r) ==
    IF ~IsTorch(xa) THEN Raise(t, "TypeError", <<>>)
    ELSE LET min0 == IF t.fixed_min # NoValue THEN t.fixed_min ELSE TMin(xa)
             max_val == IF t.fixed_max # NoValue THEN t.fixed_max ELSE TMax(xa)
             min_val == IF QEq(min0, max_val) THEN QAdd(min0, Epsilon) ELSE min0
         IN  Eval(ScaleOf(t, min_val, max_val), LAMBDA a :
             IF ~a[1] THEN Raise(t, "ZeroDivisionError", <<>>)
             ELSE IF IsNone(ya) THEN X(t, Affine(t, xa, a[2], max_val), <<>>)
             ELSE IF ~IsTorch(ya) THEN Raise(t, "TypeError", <<>>)
             ELSE Eval(ScaleOf(t, TMin(ya), TMax(ya)), LAMBDA ay :
                  IF ~ay[1] THEN Raise(t, "ZeroDivisionError", <<>>)
                  ELSE XY(t, Affine(t, xa, a[2], max_val),
                          Affine(t, ya, ay[2], TMax(ya)), <<>>)))

\* v.sub(v.min()).div(v.max() - v.min()): a tensor division
UnitRangeOf(v) ==
    Eval(TMin(v), LAMBDA lo :
        Eval(QSub(TMax(v), TMin(v)), LAMBDA width :
            Map(v, LAMBDA e : QDiv(QSub(e, lo), width))))

UnitRange_call(t, xa, ya, r) ==
    IF ~IsTorch(xa) THEN Raise(t, "AttributeError", <<>>)
    ELSE IF ~IsNone(ya)
         THEN IF ~IsTorch(ya) THEN Raise(t, "AttributeError", <<>>)
              ELSE XY(t, UnitRangeOf(xa), UnitRangeOf(ya), <<>>)
         ELSE X(t, UnitRangeOf(xa), <<>>)

\* the slices the loop of StdNormalize visits: zip(x, y) stops at the shorter
\* of the two, "for t in x" visits every slice of x
VisitedSlices(xa, ya) ==
    IF IsNone(ya) THEN 1..xa.shape[1]
    ELSE 1..(IF ya.shape[1] < xa.shape[1] THEN ya.shape[1] ELSE xa.shape[1])

\* t.sub_(th.mean(t)).div_(th.std(t)) on the leading-axis slices in ks
Standardized(v, ks) ==
    Eval([k \in ks |-> TMean(Select(v, 0, k - 1))], LAMBDA mean :
        Eval([k \in ks |-> TStd(Select(v, 0, k - 1))], LAMBDA std :
            Like(v, v.shape,
                 LAMBDA idx : IF idx[1] + 1 \in ks
                              THEN QDiv(QSub(v.data[idx], mean[idx[1] + 1]),
                                        std[idx[1] + 1])
                              ELSE v.data[idx])))

StdNormalize_call(t, xa, ya, r) ==
    IF ~(IsTorch(xa) /\ Dim(xa) >= 2) THEN Raise(t, "AttributeError", <<>>)
    ELSE IF ~IsNone(ya)
         THEN IF ~(IsTorch(ya) /\ Dim(ya) >= 2) THEN Raise(t, "AttributeError", <<>>)
              ELSE XY(t, Standardized(xa, VisitedSlices(xa, ya)),
                      Standardized(ya, VisitedSlices(xa, ya)), <<>>)
         ELSE X(t, Standardized(xa, VisitedSlices(xa, ya)), <<>>)

\* th.sum(v) > 0
SumPositive(v) == QLess(QInt(0), TSum(v))

\* the test that ends the loop of Slice2D
KeepsSlice(t, slice_x, slice_y) ==
    \/ ~t.reject_zeros
    \/ (~IsNone(slice_y) /\ SumPositive(slice_y))
    \/ SumPositive(slice_x)

\* one iteration of the "while True" loop of Slice2D with keep_slice drawn:
\* "continue" when the slice is rejected, otherwise what the call returns
Slice2D_body(t, xa, ya, r) ==
    IF ~(IsTorch(xa) /\ ValidAxis(xa, t.axis)) THEN Raise(t, "TypeError", <<>>)
    ELSE IF Dim(xa) < 3 THEN Raise(t, "IndexError", <<r.keep_slice>>)
    ELSE IF ~IsNone(ya) /\ ~(Dim(ya) >= 3 /\ r.keep_slice < Size(ya, t.axis))
         THEN Raise(t, "IndexError", <<r.keep_slice>>)
    ELSE Eval(Select(xa, t.axis, r.keep_slice), LAMBDA slice_x :
         Eval(IF IsNone(ya) THEN None ELSE Select(ya, t.axis, r.keep_slice),
              LAMBDA slice_y :
             IF ~KeepsSlice(t, slice_x, slice_y)
             THEN [kind |-> "continue", value |-> None, error |-> "",
                   drawn |-> <<r.keep_slice>>, unit |-> t]
             ELSE IF ~IsNone(ya) THEN XY(t, slice_x, slice_y, <<r.keep_slice>>)
             ELSE X(t, slice_x, <<r.keep_slice>>)))

\* fault variant of RandomCrop: y is cropped at the origin, not at the offsets
\* drawn for x
RandomCrop_call_OwnOffsetForY(t, xa, ya, r) ==
    IF ~(IsTorch(xa) /\ Dim(xa) >= 3) THEN Raise(t, "TypeError", <<>>)
    ELSE IF Size(xa, 1) < t.crop_size[1] \/ Size(xa, 2) < t.crop_size[2]
    THEN Raise(t, "ValueError", <<>>)
    ELSE LET cut(v, h, w) == Crop(v, h, h + t.crop_size[1], w, w + t.crop_size[2])
         IN  IF ~IsNone(ya)
             THEN XY(t, cut(xa, r.h_idx, r.w_idx), cut(ya, 0, 0), <<r.h_idx, r.w_idx>>)
             ELSE X(t, cut(xa, r.h_idx, r.w_idx), <<r.h_idx, r.w_idx>>)

RandomCrop_call(t, xa, ya, r) ==
    IF ~(IsTorch(xa) /\ Dim(xa) >= 2) THEN Raise(t, "TypeError", <<>>)
    ELSE IF Size(xa, 1) - t.crop_size[1] < 0 THEN Raise(t, "ValueError", <<>>)
    ELSE IF Dim(xa) < 3 THEN Raise(t, "RuntimeError", <<r.h_idx>>)
    ELSE IF Size(xa, 2) - t.crop_size[2] < 0 THEN Raise(t, "ValueError", <<r.h_idx>>)
    ELSE LET h_idx == r.h_idx
             w_idx == r.w_idx
             h_end == h_idx + t.crop_size[1]
             w_end == w_idx + t.crop_size[2]
         IN  IF ~CropOk(xa, h_idx, h_end, w_idx, w_end)
             THEN Raise(t, "ValueError", <<h_idx, w_idx>>)
             ELSE IF ~IsNone(ya)
             THEN IF ~CropOk(ya, h_idx, h_end, w_idx, w_end)
                  THEN Raise(t, "ValueError", <<h_idx, w_idx>>)
                  ELSE XY(t, Crop(xa, h_idx, h_end, w_idx, w_end),
                          Crop(ya, h_idx, h_end, w_idx, w_end), <<h_idx, w_idx>>)
             ELSE X(t, Crop(xa, h_idx, h_end, w_idx, w_end), <<h_idx, w_idx>>)

\* fault variant of the center crop: both margins rounded down
SpecialCrop_indices_FloorBoth(t, xa) ==
    LET x_diff == Size(xa, 1) - t.crop_size[1]
        y_diff == Size(xa, 2) - t.crop_size[2]
    IN  IF t.crop_type = 0
        THEN <<<<FloorHalf(x_diff), Size(xa, 1) - FloorHalf(x_diff)>>,
               <<FloorHalf(y_diff), Size(xa, 2) - FloorHalf(y_diff)>>>>
        ELSE <<<<0, t.crop_size[1]>>, <<0, t.crop_size[2]>>>>

\* indices = [[row start, row stop], [column start, column stop]]; x_diff and
\* y_diff are the size differences before the halving that ceil/floor round
SpecialCrop_indices(t, xa) ==
    LET x_diff == Size(xa, 1) - t.crop_size[1]
        y_diff == Size(xa, 2) - t.crop_size[2]
    IN  CASE t.crop_type = 0 ->
               <<<<CeilHalf(x_diff), Size(xa, 1) - FloorHalf(x_diff)>>,
                 <<CeilHalf(y_diff), Size(xa, 2) - FloorHalf(y_diff)>>>>
          [] t.crop_type = 1 ->
               <<<<0, t.crop_size[1]>>, <<0, t.crop_size[2]>>>>
          [] t.crop_type = 2 ->
               <<<<0, t.crop_size[1]>>, <<Size(xa, 2) - t.crop_size[2], Size(xa, 2)>>>>
          [] t.crop_type = 3 ->
               <<<<Size(xa, 1) - t.crop_size[1], Size(xa, 1)>>,
                 <<Size(xa, 2) - t.crop_size[2], Size(xa, 2)>>>>
          [] t.crop_type = 4 ->
               <<<<Size(xa, 1) - t.crop_size[1], Size(xa, 1)>>, <<0, t.crop_size[2]>>>>

SpecialCrop_call(t, xa, ya, r) ==
    IF ~(IsTorch(xa) /\ Dim(xa) >= 3) THEN Raise(t, "TypeError", <<>>)
    ELSE Eval(SpecialCrop_indices(t, xa), LAMBDA indices :
         LET cut(v) == Crop(v, indices[1][1], indices[1][2], indices[2][1], indices[2][2])
             ok(v) == CropOk(v, indices[1][1], indices[1][2], indices[2][1], indices[2][2])
         IN  IF ~ok(xa) THEN Raise(t, "ValueError", <<>>)
             ELSE IF ~IsNone(ya)
             THEN IF ~ok(ya) THEN Raise(t, "ValueError", <<>>)
                  ELSE XY(t, cut(xa), cut(ya), <<>>)
             ELSE X(t, cut(xa), <<>>))

\* pad_sizes of Pad: one (ceil, floor) pair per axis that zip(x.shape, size) pairs
Pad_sizes(t, xa) ==
    LET n == IF Len(t.size) < Dim(xa) THEN Len(t.size) ELSE Dim(xa)
        diff(k) == IF t.size[k] - xa.shape[k] > 0 THEN t.size[k] - xa.shape[k] ELSE 0
    IN  [k \in 1..n |-> <<CeilHalf(diff(k)), FloorHalf(diff(k))>>]

\* np.pad accepts one pair per axis, or a single pair used for every axis
PadOk(v, pad_sizes) == Len(pad_sizes) = Dim(v) \/ Len(pad_sizes) = 1
PadWith(v, pad_sizes) ==
    [PadConstant(v, [k \in 1..Dim(v) |->
                       IF Len(pad_sizes) = 1 THEN pad_sizes[1] ELSE pad_sizes[k]])
     EXCEPT !.cls = "Tensor"]

Pad_call(t, xa, ya, r) ==
    IF ~HasNumpy(xa) THEN Raise(t, "AttributeError", <<>>)
    ELSE LET pad_sizes == Pad_sizes(t, xa)
         IN  IF ~PadOk(xa, pad_sizes) THEN Raise(t, "ValueError", <<>>)
             ELSE IF ~IsNone(ya)
                  THEN IF ~HasNumpy(ya) THEN Raise(t, "AttributeError", <<>>)
                       ELSE IF ~PadOk(ya, pad_sizes) THEN Raise(t, "ValueError", <<>>)
                       ELSE XY(t, PadWith(xa, pad_sizes), PadWith(ya, pad_sizes), <<>>)
                  ELSE X(t, PadWith(xa, pad_sizes), <<>>)

\* v.swapaxes(axis, 0); v[::-1, ...]; v.swapaxes(0, axis)
Flipped(v, axis) == SwapAxes(Reverse0(SwapAxes(v, axis, 0)), 0, axis)

RandomFlip_call(t, xa, ya, r) ==
    IF ~HasNumpy(xa) \/ (~IsNone(ya) /\ ~HasNumpy(ya)) THEN Raise(t, "AttributeError", <<>>)
    ELSE LET flip_h == t.horizontal /\ QLess(r.u_h, t.p)
             flip_v == t.vertical /\ QLess(r.u_v, t.p)
             drawn_h == IF t.horizontal THEN <<r.u_h>> ELSE <<>>
             drawn_v == IF t.vertical THEN <<r.u_v>> ELSE <<>>
             fits(v, axis) == IsNone(v) \/ Dim(v) > axis
             flip(v, on, axis) == IF on /\ ~IsNone(v) THEN Flipped(v, axis) ELSE v
         IN  IF flip_h /\ ~(fits(xa, 2) /\ fits(ya, 2))
             THEN Raise(t, "ValueError", drawn_h)
             ELSE IF flip_v /\ ~(fits(xa, 1) /\ fits(ya, 1))
             THEN Raise(t, "ValueError", drawn_h \o drawn_v)
             ELSE IF IsNone(ya)
             THEN X(t, flip(flip(xa, flip_h, 2), flip_v, 1), drawn_h \o drawn_v)
             ELSE XY(t, flip(flip(xa, flip_h, 2), flip_v, 1),
                     flip(flip(ya, flip_h, 2), flip_v, 1), drawn_h \o drawn_v)

\* order = th.randperm(x.dim()); the result is the pair (x, y) also when y is None
RandomOrder_call(t, xa, ya, r) ==
    IF ~IsTorch(xa) THEN Raise(t, "AttributeError", <<>>)
    ELSE LET order == r.order
         IN  IF ~IndexSelect0Ok(xa, order) THEN Raise(t, "RuntimeError", <<order>>)
             ELSE IF ~IsNone(ya) /\ ~(IsTorch(ya) /\ IndexSelect0Ok(ya, order))
             THEN Raise(t, "RuntimeError", <<order>>)
             ELSE XY(t, IndexSelect0(xa, order),
                     IF IsNone(ya) THEN ya ELSE IndexSelect0(ya, order), <<order>>)

\* t(x, y), or t(x) when ya is None; every unit starts with a method or function
\* of x that a tuple does not have
Call(t, xa, ya, r) ==
    IF ~IsTensorValue(xa) THEN
        IF t.cls = "ToCuda" /\ IsNone(ya) THEN Raise(t, "TypeError", <<>>)
        ELSE Raise(t, "AttributeError", <<>>)
    ELSE CASE t.cls = "ToTensor" -> ToTensor_call(t, xa, ya, r)
           [] t.cls = "ToVariable" -> ToVariable_call(t, xa, ya, r)
           [] t.cls = "ToCuda" -> ToCuda_call(t, xa, ya, r)
           [] t.cls = "ToFile" -> ToFile_call(t, xa, ya, r)
           [] t.cls = "ChannelsLast" -> ChannelsLast_call(t, xa, ya, r)
           [] t.cls = "ChannelsFirst" -> ChannelsFirst_call(t, xa, ya, r)
           [] t.cls = "TypeCast" -> TypeCast_call(t, xa, ya, r)
           [] t.cls = "AddChannel" -> AddChannel_call(t, xa, ya, r)
           [] t.cls = "Transpose" -> Transpose_call(t, xa, ya, r)
           [] t.cls = "RangeNormalize" -> RangeNormalize_call(t, xa, ya, r)
           [] t.cls = "UnitRange" -> UnitRange_call(t, xa, ya, r)
           [] t.cls = "StdNormalize" -> StdNormalize_call(t, xa, ya, r)
           [] t.cls = "Slice2D" -> Slice2D_body(t, xa, ya, r)
           [] t.cls = "RandomCrop" -> RandomCrop_call(t, xa, ya, r)
           [] t.cls = "SpecialCrop" -> SpecialCrop_call(t, xa, ya, r)
           [] t.cls = "Pad" -> Pad_call(t, xa, ya, r)
           [] t.cls = "RandomFlip" -> RandomFlip_call(t, xa, ya, r)
           [] t.cls = "RandomOrder" -> RandomOrder_call(t, xa, ya, r)

-----------------------------------------------------------------------------
(* The random source *)

\* random.randint(a, b): an integer of a..b (ValueError when the range is empty)
RandInt(a, b) == a..b
\* random.random(): a float of [0, 1); two values, one on each side of p = 1/2
Uniform01 == {Q(0, 1), Q(1, 2)}
\* th.randperm(n): a permutation of 0..n-1
RandPerm(n) ==
    {o \in [1..n -> 0..(n - 1)] : \A a, b \in 1..n : o[a] = o[b] => a = b}

\* the values the random source may yield during one call of t on xa (one loop
\* iteration for Slice2D)
DrawsFor(t, xa) ==
    IF ~IsTorch(xa) /\ ~HasNumpy(xa) THEN {NoDraw}
    ELSE CASE t.cls = "RandomCrop" /\ Dim(xa) >= 3 ->
                {[NoDraw EXCEPT !.h_idx = h, !.w_idx = w] :
                    h \in (IF Size(xa, 1) < t.crop_size[1] THEN {0}
                           ELSE RandInt(0, Size(xa, 1) - t.crop_size[1])),
                    w \in (IF Size(xa, 2) < t.crop_size[2] THEN {0}
                           ELSE RandInt(0, Size(xa, 2) - t.crop_size[2]))}
           [] t.cls = "RandomFlip" ->
                {[NoDraw EXCEPT !.u_h = a, !.u_v = b] :
                    a \in (IF t.horizontal THEN Uniform01 ELSE {QInt(0)}),
                    b \in (IF t.vertical THEN Uniform01 ELSE {QInt(0)})}
           [] t.cls = "Slice2D" /\ ValidAxis(xa, t.axis) ->
                {[NoDraw EXCEPT !.keep_slice = k] : k \in RandInt(0, Size(xa, t.axis) - 1)}
           [] t.cls = "RandomOrder" ->
                {[NoDraw EXCEPT !.order = o] : o \in RandPerm(Dim(xa))}
           [] OTHER -> {NoDraw}

-----------------------------------------------------------------------------
(* Units and inputs of the model *)

\* smallest extent of a spatial axis of an input
MinHW == MaxHW - 1

CropSizes == {<<a, b>> : a, b \in MinHW..MaxHW}

Probabilities == {Q(0, 1), Q(1, 2), Q(1, 1)}

Units ==
    {[cls |-> "ToTensor"], [cls |-> "ToVariable"],
     [cls |-> "ToCuda", device |-> "cuda:0"], [cls |-> "ToFile", counter |-> 0],
     [cls |-> "TypeCast", dtype |-> "double"], [cls |-> "AddChannel", axis |-> 0],
     [cls |-> "Transpose", dim1 |-> 1, dim2 |-> 2],
     [cls |-> "UnitRange"], [cls |-> "StdNormalize"], [cls |-> "RandomOrder"],
     [cls |-> "Pad", size |-> <<MaxC, MaxHW + 1, MaxHW + 1>>]}
    \cup {[cls |-> "ChannelsLast", safe_check |-> b] : b \in BOOLEAN}
    \cup {[cls |-> "ChannelsFirst", safe_check |-> b] : b \in BOOLEAN}
    \cup {[cls |-> "RangeNormalize", min_range |-> QInt(0), max_range |-> QInt(1),
           fixed_min |-> f[1], fixed_max |-> f[2]] :
              f \in {<<NoValue, NoValue>>, <<QInt(0), QInt(MaxC * MaxHW * MaxHW)>>}}
    \cup {[cls |-> "Slice2D", axis |-> a, reject_zeros |-> b] : a \in 0..2, b \in BOOLEAN}
    \cup {[cls |-> "RandomCrop", crop_size |-> c] : c \in CropSizes}
    \cup {[cls |-> "SpecialCrop", crop_size |-> c, crop_type |-> k] :
              c \in CropSizes, k \in 0..4}
    \cup {[cls |-> "RandomFlip", horizontal |-> h, vertical |-> v, p |-> p] :
              h, v \in BOOLEAN, p \in Probabilities}

\* the units Compose pipelines are built from: one configuration of a class
PipelineUnits ==
    {t \in Units :
        /\ t.cls \in {"ToTensor", "AddChannel", "RangeNormalize", "Slice2D",
                      "RandomCrop", "RandomFlip", "RandomOrder"}
        /\ t.cls = "RangeNormalize" => t.fixed_min = NoValue
        /\ t.cls = "Slice2D" => t.axis = 0 /\ t.reject_zeros
        /\ t.cls = "RandomCrop" => t.crop_size = <<MinHW, MinHW>>
        /\ t.cls = "RandomFlip" => t.horizontal /\ ~t.vertical /\ t.p = Q(1, 2)}

RECURSIVE Lists(_, _)
\* the lists of at most n elements of S
Lists(S, n) ==
    IF n = 0 THEN {<<>>}
    ELSE LET shorter == Lists(S, n - 1)
         IN  shorter \cup {Append(l, e) : l \in shorter, e \in S}

\* channel counts of the inputs
Channels == {1, MaxC - 1, MaxC}

Shapes == {s \in {<<c, h, w>> : c \in Channels, h, w \in MinHW..MaxHW} : s[2] <= s[3]}

\* row-major position of idx in shape, from 1
RECURSIVE Position(_, _)
Position(idx, shape) ==
    IF idx = <<>> THEN 1
    ELSE (Position(SubSeq(idx, 1, Len(idx) - 1), SubSeq(shape, 1, Len(shape) - 1)) - 1)
             * shape[Len(shape)] + idx[Len(idx)] + 1

\* contents of an input: all elements distinct and positive; all zero; zero but
\* for the last element; all distinct and negative
Patterns == {"ramp", "zeros", "corner", "neg"}

Content(pattern, shape, idx) ==
    CASE pattern = "ramp" -> QInt(Position(idx, shape))
      [] pattern = "zeros" -> QInt(0)
      [] pattern = "corner" ->
            IF \A k \in 1..Len(shape) : idx[k] = shape[k] - 1 THEN QInt(1) ELSE QInt(0)
      [] pattern = "neg" -> QInt(-Position(idx, shape))

Input(cls, shape, pattern) ==
    MkTensor(cls, "float", "cpu", shape, LAMBDA idx : Content(pattern, shape, idx))

\* the x of an invocation; numpy arrays are what ToTensor takes
InputsX ==
    {Input("Tensor", s, p) : s \in Shapes, p \in Patterns}
    \cup {Input("ndarray", <<MaxC, MaxHW, MaxHW>>, "ramp")}

\* the y that may accompany xa: absent, or of the same class and spatial
\* extents, with the channels of xa or a single channel
InputsY(xa) ==
    {None, Input(xa.cls, <<1, xa.shape[2], xa.shape[3]>>, "ramp")}
    \cup {Input(xa.cls, xa.shape, p) : p \in Patterns \ {"neg"}}

\* the inputs of a Compose invocation
ComposeInputsX ==
    {Input("Tensor", <<MaxC, MinHW, MaxHW>>, "ramp"),
     Input("ndarray", <<MaxC, MaxHW, MaxHW>>, "ramp")}
ComposeInputsY(xa) == {None, Input(xa.cls, xa.shape, "corner")}

-----------------------------------------------------------------------------
(* The state machine: one invocation, of a unit directly (mode "unit") or of *)
(* a Compose pipeline (mode "compose")                                      *)

NoCall ==
    [unit |-> None, xa |-> None, ya |-> None, drawn |-> <<>>,
     kind |-> "none", value |-> None, error |-> ""]

SoloOff == [kind |-> "off", drawn |-> <<>>, value |-> None]

Init ==
    /\ pc = "idle"
    /\ \/ mode = "unit" /\ transforms \in {<<t>> : t \in Units}
       \/ mode = "compose" /\ transforms \in Lists(PipelineUnits, MaxLen)
    /\ x0 = None /\ y0 = None /\ x = None /\ y = None
    /\ i = 1
    /\ tape = <<>>
    /\ last = NoCall
    /\ solo = SoloOff
    /\ result = None
    /\ error = ""

\* the caller invokes the unit or the pipeline with xin and yin (None: no y)
Invoke(m, xin, yin) ==
    /\ pc = "idle" /\ mode = m
    /\ x0' = xin /\ y0' = yin
    /\ x' = xin /\ y' = yin
    /\ pc' = "run"
    /\ UNCHANGED <<mode, transforms, i, tape, last, solo, result, error>>

\* the draws recorded so far, followed by those of one more loop iteration
Recorded(s, drawn) ==
    IF drawn = <<>> THEN s
    ELSE IF Len(s) < MaxDraws THEN s \o drawn
    ELSE [s EXCEPT ![MaxDraws] = drawn[1]]

\* the call with y absent that accompanies a call with y present: it is given
\* the same draws as long as it runs
SoloAfter(t, out1, fresh) ==
    IF fresh THEN [kind |-> out1.kind, drawn |-> out1.drawn, value |-> out1.value]
    ELSE IF solo.kind = "continue"
    THEN [kind |-> out1.kind, drawn |-> Recorded(solo.drawn, out1.drawn),
          value |-> out1.value]
    ELSE solo

\* fault variant of the loop body of Compose: the y a unit returns is dropped
Compose_assign_KeepsY(out) ==
    /\ x' = IF ~IsNone(y0) THEN out.value.items[1] ELSE out.value
    /\ UNCHANGED y

\* Compose.__call__, loop body: "x, y = t(x, y)" when y was given, "x = t(x)"
\* otherwise
Compose_assign(out) ==
    IF ~IsNone(y0)
    THEN x' = out.value.items[1] /\ y' = out.value.items[2]
    ELSE x' = out.value /\ UNCHANGED y

\* the effect of one call of t = transforms[i] on the current x and y (of one
\* iteration of its loop when t is a Slice2D), the random source yielding r
Step(r, fresh) ==
    /\ tape' = IF fresh THEN Append(tape, r) ELSE [tape EXCEPT ![Len(tape)] = r]
    /\ \E out \in {Call(transforms[i], x, y, r)} :
           LET t == transforms[i]
               drawn == IF fresh THEN out.drawn ELSE Recorded(last.drawn, out.drawn)
           IN  /\ last' = [unit |-> t, xa |-> x, ya |-> y, drawn |-> drawn,
                           kind |-> out.kind, value |-> out.value, error |-> out.error]
               /\ solo' = IF IsNone(y) THEN SoloOff
                          ELSE SoloAfter(t, Call(t, x, None, r), fresh)
               /\ CASE out.kind = "continue" ->
                         /\ pc' = "slice2d"
                         /\ UNCHANGED <<x, y, i, transforms, result, error>>
                    [] out.kind = "raise" ->
                         /\ pc' = "raised"
                         /\ error' = out.error
                         /\ UNCHANGED <<x, y, i, transforms, result>>
                    [] out.kind = "return" /\ mode = "unit" ->
                         /\ pc' = "returned"
                         /\ result' = out.value
                         /\ transforms' = [transforms EXCEPT ![i] = out.unit]
                         /\ UNCHANGED <<x, y, i, error>>
                    [] out.kind = "return" /\ mode = "compose" ->
                         /\ pc' = "run"
                         /\ Compose_assign(out)
                         /\ i' = i + 1
                         /\ transforms' = [transforms EXCEPT ![i] = out.unit]
                         /\ UNCHANGED <<result, error>>
               /\ UNCHANGED <<mode, x0, y0>>

\* t(x, y) or t(x), called directly
Unit_call ==
    /\ pc = "run" /\ mode = "unit"
    /\ \E r \in DrawsFor(transforms[i], x) : Step(r, TRUE)

\* Compose.__call__: the next unit of the list is called
Compose_call ==
    /\ pc = "run" /\ mode = "compose"
    /\ i <= Len(transforms)
    /\ \E r \in DrawsFor(transforms[i], x) : Step(r, TRUE)

\* largest extent of an axis, hence the slice indices that can be drawn
MaxExtent == IF MaxC > MaxHW THEN MaxC ELSE MaxHW

\* Slice2D.__call__: the slice drawn was rejected, the loop draws again and
\* random.randint yields k
Slice2D_draw(k) ==
    /\ pc = "slice2d"
    /\ [NoDraw EXCEPT !.keep_slice = k] \in DrawsFor(transforms[i], x)
    /\ Step([NoDraw EXCEPT !.keep_slice = k], FALSE)

Slice2D_redraw == \E k \in 0..(MaxExtent - 1) : Slice2D_draw(k)

\* Compose.__call__: the list is exhausted; "return x, y" or "return x"
Compose_return ==
    /\ pc = "run" /\ mode = "compose"
    /\ i > Len(transforms)
    /\ result' = IF ~IsNone(y0) THEN Pair(x, y) ELSE x
    /\ pc' = "returned"
    /\ UNCHANGED <<mode, transforms, x0, y0, x, y, i, tape, last, solo, error>>

Next ==
    \/ \E xin \in InputsX : \E yin \in InputsY(xin) : Invoke("unit", xin, yin)
    \/ \E xin \in ComposeInputsX : \E yin \in ComposeInputsY(xin) :
          Invoke("compose", xin, yin)
    \/ Unit_call
    \/ Compose_call
    \/ Slice2D_redraw
    \/ Compose_return

Spec == Init /\ [][Next]_vars

\* a Slice2D called directly starts its loop
Slice2D_call ==
    /\ mode = "unit" /\ transforms[1].cls = "Slice2D"
    /\ Unit_call

\* a Slice2D that is called runs, and with uniform draws a slice index that
\* could be drawn at every iteration of its loop is eventually drawn
FairSpec ==
    /\ Spec
    /\ WF_vars(Slice2D_call)
    /\ \A k \in 0..(MaxExtent - 1) : WF_vars(Slice2D_draw(k))

-----------------------------------------------------------------------------
(* Properties *)

\* the last unit call has returned or raised
Completed == last.kind \in {"return", "raise"}
Returned == last.kind = "return"
\* the last unit call was t(x, y) with a y / t(x)
TwoStream == ~IsNone(last.ya)
OneStream == IsNone(last.ya) /\ last.kind # "none"

LastUnitIs(classes) == last.kind # "none" /\ last.unit.cls \in classes

NonZero(v) == \E idx \in DOMAIN v.data : v.data[idx] # QInt(0)

\* C1: a unit called with y absent returns a single tensor whenever the same
\* call with a y (x itself) would have returned: it neither needs a y nor makes
\* one up; and a Compose invocation with y absent keeps y absent at every step
\* and returns a single tensor.
C1_AbsentYStaysAbsent ==
    /\ (Completed /\ OneStream
          /\ Call(last.unit, last.xa, last.xa, tape[Len(tape)]).kind = "return")
       => (Returned /\ IsTensorValue(last.value))
    /\ (mode = "compose" /\ IsNone(y0)) => IsNone(y)
    /\ (mode = "compose" /\ IsNone(y0) /\ pc = "returned") => IsTensorValue(result)

\* C4: RandomCrop and SpecialCrop raise when crop_size exceeds the extent of x
\* on a spatial axis; they never return a tensor then.
C4_OversizeCropFails ==
    (/\ Completed /\ LastUnitIs({"RandomCrop", "SpecialCrop"})
     /\ IsTorch(last.xa) /\ Dim(last.xa) >= 3
     /\ \/ last.unit.crop_size[1] > Size(last.xa, 1)
        \/ last.unit.crop_size[2] > Size(last.xa, 2))
    => last.kind = "raise"

\* C6: RangeNormalize never divides by zero, whatever the streams hold.
C6_NoDivisionByZero ==
    (Completed /\ LastUnitIs({"RangeNormalize"})) => last.error # "ZeroDivisionError"

\* C7: with reject_zeros, the slice Slice2D returns of the stream it checks (y
\* when given, x otherwise) is never all-zero.
C7_ReturnedSliceNotAllZero ==
    (Returned /\ LastUnitIs({"Slice2D"}) /\ last.unit.reject_zeros)
    => IF TwoStream THEN NonZero(last.value.items[2]) ELSE NonZero(last.value)

\* C8: RandomOrder reindexes axis 0 of x by one permutation of its channel
\* indices 0..C-1, so x keeps its C channels, each once, and a y with the same
\* channels is reindexed the same way.
C8_PermutesChannels ==
    (/\ Completed /\ LastUnitIs({"RandomOrder"}) /\ IsTorch(last.xa)
     /\ TwoStream => (IsTorch(last.ya) /\ last.ya.shape[1] = last.xa.shape[1]))
    => /\ Returned
       /\ last.drawn[1] \in RandPerm(last.xa.shape[1])
       /\ last.value.items[1] = IndexSelect0(last.xa, last.drawn[1])
       /\ TwoStream => last.value.items[2] = IndexSelect0(last.ya, last.drawn[1])

\* C9: StdNormalize called with x and y normalizes every leading-axis slice of
\* x, as the call with x alone does, and every leading-axis slice of y.
C9_EverySliceNormalized ==
    (Returned /\ LastUnitIs({"StdNormalize"}) /\ TwoStream)
    => /\ last.value.items[1] = Standardized(last.xa, 1..last.xa.shape[1])
       /\ last.value.items[1] = solo.value
       /\ last.value.items[2] = Standardized(last.ya, 1..last.ya.shape[1])

Geometry == {"RandomCrop", "RandomFlip", "Slice2D", "RandomOrder"}

\* the structural operation of unit t that the draws recorded in drawn select,
\* applied to one stream v
GeometryOf(t, v, drawn) ==
    CASE t.cls = "RandomCrop" ->
           Crop(v, drawn[1], drawn[1] + t.crop_size[1], drawn[2], drawn[2] + t.crop_size[2])
      [] t.cls = "RandomFlip" ->
           LET flip_h == t.horizontal /\ QLess(drawn[1], t.p)
               flip_v == t.vertical /\ QLess(drawn[Len(drawn)], t.p)
               h == IF flip_h THEN Flipped(v, 2) ELSE v
           IN  IF flip_v THEN Flipped(h, 1) ELSE h
      [] t.cls = "Slice2D" -> Select(v, t.axis, drawn[Len(drawn)])
      [] t.cls = "RandomOrder" -> IndexSelect0(v, drawn[1])

\* the number of random decisions of one call of t (of one iteration for Slice2D)
Decisions(t) ==
    CASE t.cls = "RandomCrop" -> 2
      [] t.cls = "RandomFlip" ->
           (IF t.horizontal THEN 1 ELSE 0) + (IF t.vertical THEN 1 ELSE 0)
      [] t.cls = "Slice2D" -> 1
      [] t.cls = "RandomOrder" -> 1

Redraws(t) == t.cls = "Slice2D" /\ t.reject_zeros

\* both streams of the last call are the same structural operation, selected by
\* the draws of the call
SharedDraw ==
    /\ last.value.items[1] = GeometryOf(last.unit, last.xa, last.drawn)
    /\ last.value.items[2] = GeometryOf(last.unit, last.ya, last.drawn)

\* C2 as stated: a randomized-geometry unit called with x and y applies every
\* draw to both streams and draws as often as the call with x alone does.
C2_SameDrawsAsWithoutY ==
    (Returned /\ TwoStream /\ LastUnitIs(Geometry))
    => /\ SharedDraw
       /\ solo.kind = "return"
       /\ solo.drawn = last.drawn

\* C2: a randomized-geometry unit called with x and y applies every draw to
\* both streams, none is made for y alone; unless it is a Slice2D with
\* reject_zeros, whose loop draws until a slice passes its test, it makes one
\* draw per random decision, as the call with x alone does.
C2_SharedDraw ==
    (Returned /\ TwoStream /\ LastUnitIs(Geometry))
    => /\ SharedDraw
       /\ ~Redraws(last.unit)
          => /\ Len(last.drawn) = Decisions(last.unit)
             /\ solo.kind = "return"
             /\ solo.drawn = last.drawn

\* a Slice2D with reject_zeros has returned slices of x and y while the call
\* with x alone, given the same draws, is still drawing
C2_Witness ==
    /\ Returned /\ TwoStream /\ LastUnitIs({"Slice2D"}) /\ Redraws(last.unit)
    /\ solo.kind = "continue"

RECURSIVE Chained(_, _, _, _)
\* Tn(...T2(T1(x, y))...), or Tn(...T1(x)...) when ya is None, unit k being
\* given the draws rs[k]
Chained(ts, rs, xa, ya) ==
    IF ts = <<>>
    THEN [kind |-> "return", error |-> "",
          value |-> IF ~IsNone(ya) THEN Pair(xa, ya) ELSE xa]
    ELSE LET out == Call(Head(ts), xa, ya, Head(rs))
         IN  IF out.kind # "return"
             THEN [kind |-> "raise", error |-> out.error, value |-> None]
             ELSE IF ~IsNone(ya)
             THEN Chained(Tail(ts), Tail(rs), out.value.items[1], out.value.items[2])
             ELSE Chained(Tail(ts), Tail(rs), out.value, ya)

\* C3: what a Compose invocation returns is the units applied in list order,
\* each to the output of the one before it, and what it raises is what the
\* first failing unit of that chain raises; an empty Compose returns its input.
C3_ComposeChains ==
    /\ (mode = "compose" /\ pc = "returned")
       => /\ Chained(transforms, tape, x0, y0).kind = "return"
          /\ result = Chained(transforms, tape, x0, y0).value
    /\ (mode = "compose" /\ pc = "raised")
       => /\ Chained(SubSeq(transforms, 1, Len(tape)), tape, x0, y0).kind = "raise"
          /\ error = Chained(SubSeq(transforms, 1, Len(tape)), tape, x0, y0).error
    /\ (mode = "compose" /\ pc = "returned" /\ transforms = <<>>)
       => result = IF ~IsNone(y0) THEN Pair(x0, y0) ELSE x0

\* a pipeline of two different units has returned an x and a y, both changed
C3_Witness ==
    /\ mode = "compose" /\ pc = "returned" /\ ~IsNone(y0)
    /\ Len(transforms) >= 2 /\ transforms[1] # transforms[2]
    /\ result.items[1] # x0 /\ result.items[2] # y0

\* out holds the elements of v in rows a0..b0-1 and columns a1..b1-1
CutAt(out, v, indices) ==
    /\ out.shape = <<v.shape[1], indices[1][2] - indices[1][1],
                     indices[2][2] - indices[2][1]>>
    /\ \A idx \in DOMAIN out.data :
          out.data[idx] = v.data[<<idx[1], idx[2] + indices[1][1], idx[3] + indices[2][1]>>]

\* a SpecialCrop call whose crop_size fits x on both spatial axes
FittingCrop ==
    /\ Completed /\ LastUnitIs({"SpecialCrop"})
    /\ IsTorch(last.xa) /\ Dim(last.xa) = 3
    /\ \A k \in 1..2 : last.unit.crop_size[k] <= Size(last.xa, k)

\* C5: when crop_size fits, SpecialCrop computes for each spatial axis a range
\* inside [0, size] of length crop_size and returns x and y cut to these
\* ranges; crop_type 0 leaves ceil(diff/2) before and floor(diff/2) after the
\* range, and size (10,10) with crop_size (4,4) gives [3:7, 3:7].
C5_SpecialCropRanges ==
    /\ FittingCrop
       => LET indices == SpecialCrop_indices(last.unit, last.xa)
              lead(k) == indices[k][1]
              trail(k) == Size(last.xa, k) - indices[k][2]
          IN  /\ \A k \in 1..2 :
                    /\ 0 <= indices[k][1] /\ indices[k][2] <= Size(last.xa, k)
                    /\ indices[k][2] - indices[k][1] = last.unit.crop_size[k]
                    /\ last.unit.crop_type = 0
                       => /\ lead(k) + trail(k) = Size(last.xa, k) - last.unit.crop_size[k]
                          /\ lead(k) - trail(k) \in {0, 1}
              /\ Returned
              /\ IF TwoStream
                 THEN /\ CutAt(last.value.items[1], last.xa, indices)
                      /\ CutAt(last.value.items[2], last.ya, indices)
                 ELSE CutAt(last.value, last.xa, indices)
    /\ SpecialCrop_indices([cls |-> "SpecialCrop", crop_size |-> <<4, 4>>, crop_type |-> 0],
                           [shape |-> <<1, 10, 10>>])
       = <<<<3, 7>>, <<3, 7>>>>

\* a center crop of x and y has returned, the size difference being odd on the
\* first spatial axis
C5_Witness ==
    /\ FittingCrop /\ Returned /\ TwoStream
    /\ last.unit.crop_type = 0
    /\ Size(last.xa, 1) - last.unit.crop_size[1] = 1

\* the stream whose slices Slice2D is said to test
Checked == IF ~IsNone(y) THEN y ELSE x

\* a Slice2D with reject_zeros is called on a volume x, with no y or a y of the
\* shape of x, and one slice of the checked stream is not all-zero
Slice2D_Feasible ==
    /\ mode = "unit" /\ pc = "run"
    /\ transforms[1].cls = "Slice2D" /\ transforms[1].reject_zeros
    /\ IsTorch(x) /\ Dim(x) = 3
    /\ IsNone(y) \/ (IsTorch(y) /\ y.shape = x.shape)
    /\ \E k \in 0..(Size(x, transforms[1].axis) - 1) :
          NonZero(Select(Checked, transforms[1].axis, k))

\* C10: under fair draws, a Slice2D with reject_zeros called on streams whose
\* checked stream has a slice that is not all-zero eventually returns.
C10_Slice2DReturns == Slice2D_Feasible ~> (pc = "returned")

====
